---- MODULE Spec2Model ----
(***************************************************************************)
(* The e-commerce cart: the product catalog (ProductPrototype), the        *)
(* shopping cart (ShoppingCart / CartItem), the discount strategies, the   *)
(* admin/customer bridge and the menus that drive them.                    *)
(*                                                                         *)
(* Spec        drives the ShoppingCart of one session directly: the cart   *)
(*             is filled, its quantities set, and it is checked out, any   *)
(*             number of times.                                            *)
(* CartSpec    is a session that edits its cart (add, update, remove).     *)
(* CatalogSpec is a session whose catalog is edited (register, update)     *)
(*             while its cart is filled and checked out.                   *)
(* MenuSpec    is the whole console program: main_menu, customer_menu and  *)
(*             admin_menu, with the nested main_menu() calls the menus     *)
(*             make when they end.                                         *)
(***************************************************************************)
EXTENDS Integers, Sequences, FiniteSets, TLC

VARIABLES
    products,            \* ProductPrototype.products of the running main_menu
    cart_items,          \* ShoppingCart.cart_items of the running main_menu
    customer_menu_func,  \* AdminCustomerBridge.customer_menu_func is set
    pc,                  \* where the running main_menu waits for input
    stack,               \* the suspended main_menu calls below the running one
    last                 \* the last operation performed and what it reported

vars == <<products, cart_items, customer_menu_func, pc, stack, last>>

----------------------------------------------------------------------------
(* Bounds of the model *)

MaxCart == 2

MaxCount == 25

MaxDepth == 1

\* Quantities typed at "Enter quantity" / "Enter new quantity".
QtyInputs == {-5, 0, 5, 20}

\* Quantities typed at "Enter quantity to remove".
RemoveInputs == {0, 5, 20}

\* What the admin types at "Add New Product" and "Update Product Availability",
\* and the quantity typed at "Add to Cart" in the sessions that also edit the
\* catalog.
AdminNames == {"Laptop1", "Mouse1"}

AdminPrices == {900}

AdminDiscounts == {0, 5}

AdminCounts == {0, 5}

FewQtyInputs == {5}

----------------------------------------------------------------------------
(* Discount strategies *)

NoStrategy == [kind |-> "None", percentage |-> 0]

DiscountStrategy == [kind |-> "DiscountStrategy", percentage |-> 0]

PercentageOffDiscountStrategy(percentage) ==
    [kind |-> "PercentageOff", percentage |-> percentage]

BuyOneGetOneFreeDiscountStrategy == [kind |-> "BuyOneGetOneFree", percentage |-> 0]

\* The discounted unit price in hundredths: price * (1 - percentage / 100),
\* price * 0.5 and price keep their exact value when scaled by 100.
apply_discount(strategy, price) ==
    CASE strategy.kind = "PercentageOff" -> price * (100 - strategy.percentage)
      [] strategy.kind = "BuyOneGetOneFree" -> price * 50
      [] strategy.kind = "DiscountStrategy" -> price * 100

\* None has no apply_discount: the call raises AttributeError.
Raises(item) == item.discount_strategy.kind = "None"

----------------------------------------------------------------------------
(* Product, CartItem *)

Product(price, available, count, discount) ==
    [price |-> price, available |-> available, count |-> count, discount |-> discount]

CartItem(name, price, quantity, discount_strategy) ==
    [name |-> name, price |-> price, quantity |-> quantity,
     discount_strategy |-> discount_strategy]

calculate_total(item) == apply_discount(item.discount_strategy, item.price) * item.quantity

----------------------------------------------------------------------------
(* ProductPrototype *)

DefaultCount == 10

product_data ==
    [n \in {"Laptop1", "Headphones1"} |->
        IF n = "Laptop1" THEN Product(800, TRUE, 20, 5) ELSE Product(50, FALSE, 10, 0)]

\* register_product leaves count at the constructor's default.
register_product(prods, name, price, available, discount) ==
    [n \in DOMAIN prods \cup {name} |->
        IF n = name THEN Product(price, available, DefaultCount, discount) ELSE prods[n]]

SetCount(prods, name, count) == [prods EXCEPT ![name].count = count]

RECURSIVE LoadFrom(_, _)
LoadFrom(prods, names) ==
    IF names = {} THEN prods
    ELSE LET n == CHOOSE x \in names : TRUE
             d == product_data[n]
         IN LoadFrom(SetCount(register_product(prods, n, d.price, d.available, d.discount),
                              n, d.count),
                     names \ {n})

load_products == LoadFrom(<<>>, DOMAIN product_data)

\* deepcopy of the entry, then a CartItem of its name and price.
clone(prods, name, quantity, discount_strategy) ==
    CartItem(name, prods[name].price, quantity, discount_strategy)

----------------------------------------------------------------------------
(* ShoppingCart *)

add_item(items, product, quantity, discount_strategy) ==
    Append(items, CartItem(product.name, product.price, quantity, discount_strategy))

Matches(items, product_name) == {i \in 1..Len(items) : items[i].name = product_name}

update_quantity(items, product_name, new_quantity) ==
    IF Matches(items, product_name) = {} THEN items
    ELSE LET i == CHOOSE k \in Matches(items, product_name) :
                      \A j \in Matches(items, product_name) : k <= j
         IN [items EXCEPT ![i].quantity = new_quantity]

RemoveAt(items, i) == SubSeq(items, 1, i - 1) \o SubSeq(items, i + 1, Len(items))

\* "for item in self.cart_items" walks the list by index, so after
\* self.cart_items.remove(item) the element that moved into slot i is passed over.
RECURSIVE RemoveLoop(_, _, _, _)
RemoveLoop(items, product_name, remove_quantity, i) ==
    IF i > Len(items) THEN items
    ELSE IF items[i].name = product_name
         THEN IF items[i].quantity - remove_quantity <= 0
              THEN RemoveLoop(RemoveAt(items, i), product_name, remove_quantity, i + 1)
              ELSE RemoveLoop([items EXCEPT ![i].quantity = @ - remove_quantity],
                              product_name, remove_quantity, i + 1)
         ELSE RemoveLoop(items, product_name, remove_quantity, i + 1)

remove_all(items, product_name) ==
    SelectSeq(items, LAMBDA item : item.name # product_name)

remove_item(items, product_name, remove_quantity) ==
    RemoveLoop(items, product_name, remove_quantity, 1)

RECURSIVE SumTotals(_, _)
SumTotals(items, i) ==
    IF i > Len(items) THEN 0 ELSE calculate_total(items[i]) + SumTotals(items, i + 1)

calculate_total_bill(items) == SumTotals(items, 1)

\* display_cart raises when calculate_total_bill does.
display_cart_raises(items) == \E i \in 1..Len(items) : Raises(items[i])

\* A stock test that only asks whether any unit is left.
HasStockAnyLeft(product, quantity) == product.count > 0

HasStock(product, quantity) == product.count >= quantity

\* A deduction that forgets the availability flag.
DeductKeepsAvailable(product, quantity) ==
    [product EXCEPT !.count = @ - quantity]

Deduct(product, quantity) ==
    LET count == product.count - quantity
    IN [product EXCEPT !.count = count,
                       !.available = IF count = 0 THEN FALSE ELSE @]

\* A loop that passes over a line item it cannot serve and goes on with the rest.
RECURSIVE CheckoutLoopGoesOn(_, _, _)
CheckoutLoopGoesOn(items, prods, i) ==
    IF i > Len(items)
    THEN [products |-> prods, cart_items |-> items, outcome |-> "success", at |-> 0]
    ELSE LET product_name == items[i].name
             quantity == items[i].quantity
         IN IF product_name \in DOMAIN prods /\ prods[product_name].count >= quantity
            THEN CheckoutLoopGoesOn(items,
                     [prods EXCEPT ![product_name].count = @ - quantity,
                                   ![product_name].available =
                                       IF prods[product_name].count = quantity
                                       THEN FALSE ELSE @],
                                    i + 1)
            ELSE CheckoutLoopGoesOn(items, prods, i + 1)

\* The loop of checkout: the catalog and the cart it leaves, how it ended, and
\* the index of the line item it stopped at (0 when it walked the whole cart).
RECURSIVE CheckoutLoop(_, _, _)
CheckoutLoop(items, prods, i) ==
    IF i > Len(items)
    THEN [products |-> prods, cart_items |-> items, outcome |-> "success", at |-> 0]
    ELSE LET product_name == items[i].name
             quantity == items[i].quantity
         IN IF product_name \in DOMAIN prods
            THEN IF HasStock(prods[product_name], quantity)
                 THEN CheckoutLoop(items,
                                   [prods EXCEPT ![product_name] = Deduct(@, quantity)],
                                   i + 1)
                 ELSE [products |-> prods, cart_items |-> items,
                       outcome |-> "insufficient", at |-> i]
            ELSE CheckoutLoop(items, prods, i + 1)

\* A checkout that empties the cart once the purchase went through.
checkoutClearsCart(items, prods) ==
    IF display_cart_raises(items)
    THEN [products |-> prods, cart_items |-> items, outcome |-> "error", at |-> 0]
    ELSE LET r == CheckoutLoop(items, prods, 1)
         IN IF r.outcome = "success" THEN [r EXCEPT !.cart_items = <<>>] ELSE r

\* What checkout leaves: the catalog, the cart (it is not emptied), how the
\* pass ended and where it stopped. An exception is caught and logged.
checkout(items, prods) ==
    IF display_cart_raises(items)
    THEN [products |-> prods, cart_items |-> items, outcome |-> "error", at |-> 0]
    ELSE CheckoutLoop(items, prods, 1)

----------------------------------------------------------------------------
(* The session's objects, driven directly *)

Op(op, name, q, all, outcome, at) ==
    [op |-> op, name |-> name, q |-> q, all |-> all, outcome |-> outcome, at |-> at]

StrategyChoices == {NoStrategy, PercentageOffDiscountStrategy(10)}

Init ==
    /\ products = load_products
    /\ cart_items = <<>>
    /\ customer_menu_func = FALSE
    /\ pc = "welcome"
    /\ stack = <<>>
    /\ last = Op("init", "", 0, FALSE, "", 0)

AddItem ==
    \E name \in DOMAIN products, quantity \in QtyInputs, ds \in StrategyChoices :
        /\ Len(cart_items) < MaxCart
        /\ cart_items' = add_item(cart_items, clone(products, name, quantity, ds),
                                  quantity, ds)
        /\ last' = Op("add_item", name, quantity, FALSE, "", 0)
        /\ UNCHANGED <<products, customer_menu_func, pc, stack>>

UpdateQuantity ==
    \E name \in DOMAIN products, new_quantity \in QtyInputs :
        /\ cart_items' = update_quantity(cart_items, name, new_quantity)
        /\ last' = Op("update_quantity", name, new_quantity, FALSE,
                      IF Matches(cart_items, name) = {} THEN "not found" ELSE "", 0)
        /\ UNCHANGED <<products, customer_menu_func, pc, stack>>

RemoveItem ==
    \E name \in DOMAIN products, remove_quantity \in RemoveInputs :
        /\ cart_items' = remove_item(cart_items, name, remove_quantity)
        /\ last' = Op("remove_item", name, remove_quantity, FALSE, "", 0)
        /\ UNCHANGED <<products, customer_menu_func, pc, stack>>

RemoveItemAll ==
    \E name \in DOMAIN products :
        /\ cart_items' = remove_all(cart_items, name)
        /\ last' = Op("remove_item", name, 0, TRUE, "", 0)
        /\ UNCHANGED <<products, customer_menu_func, pc, stack>>

Checkout ==
    LET r == checkout(cart_items, products)
    IN /\ \A n \in DOMAIN r.products : r.products[n].count <= MaxCount
       /\ products' = r.products
       /\ cart_items' = r.cart_items
       /\ last' = Op("checkout", "", 0, FALSE, r.outcome, r.at)
       /\ UNCHANGED <<customer_menu_func, pc, stack>>

\* customer_menu, "Add to Cart": the strategy chosen for the line item.
menu_strategy(prods, name) ==
    IF prods[name].discount > 0 THEN PercentageOffDiscountStrategy(10) ELSE NoStrategy

\* "Add to Cart" as the customer menu does it.
AddToCart ==
    \E name \in DOMAIN products, quantity \in FewQtyInputs :
        /\ Len(cart_items) < MaxCart
        /\ LET ds == menu_strategy(products, name)
           IN cart_items' = add_item(cart_items, clone(products, name, quantity, ds),
                                     quantity, ds)
        /\ last' = Op("add_item", name, quantity, FALSE, "", 0)
        /\ UNCHANGED <<products, customer_menu_func, pc, stack>>

\* register_product, then the count set by the caller (load_products, admin_menu).
RegisterProduct ==
    \E name \in AdminNames, price \in AdminPrices, available \in BOOLEAN,
       discount \in AdminDiscounts, count \in AdminCounts :
        /\ products' = SetCount(register_product(products, name, price, available,
                                                  discount), name, count)
        /\ last' = Op("register_product", name, count, FALSE, "", 0)
        /\ UNCHANGED <<cart_items, customer_menu_func, pc, stack>>

update_product(prods, name, available, count, discount) ==
    [prods EXCEPT ![name].available = available,
                  ![name].count = count,
                  ![name].discount = discount]

\* The field assignments of admin_menu's "Update Product Availability".
UpdateProduct ==
    \E name \in AdminNames, available \in BOOLEAN,
       count \in AdminCounts, discount \in AdminDiscounts :
        /\ IF name \in DOMAIN products
           THEN /\ products' = update_product(products, name, available, count, discount)
                /\ last' = Op("update_product", name, count, FALSE, "", 0)
           ELSE /\ products' = products
                /\ last' = Op("update_product", name, count, FALSE, "not found", 0)
        /\ UNCHANGED <<cart_items, customer_menu_func, pc, stack>>

\* A session that fills its cart and checks out, any number of times.
Next ==
    \/ AddItem
    \/ UpdateQuantity
    \/ Checkout

Spec == Init /\ [][Next]_vars

\* A session that edits its cart.
CartNext ==
    \/ AddItem
    \/ UpdateQuantity
    \/ RemoveItem
    \/ RemoveItemAll

CartSpec == Init /\ [][CartNext]_vars

\* A session whose catalog is edited while its cart is filled and checked out.
CatalogNext ==
    \/ AddToCart
    \/ RegisterProduct
    \/ UpdateProduct
    \/ Checkout

CatalogSpec == Init /\ [][CatalogNext]_vars

----------------------------------------------------------------------------
(* The console program: main_menu, customer_menu, admin_menu *)

\* What is typed in the menus.
MenuNames == {"Laptop1", "Headphones1"}

MenuQtyInputs == {0, 5}

NewProducts == {"Mouse1"}

Frame(prods, items, func) ==
    [products |-> prods, cart_items |-> items, customer_menu_func |-> func]

\* A menu calls main_menu(): a new catalog, cart and bridge are made and the
\* sample data loaded, while the caller's objects wait below.
CallMainMenu(prods, items, func) ==
    /\ Len(stack) < MaxDepth
    /\ stack' = Append(stack, Frame(prods, items, func))
    /\ products' = load_products
    /\ cart_items' = <<>>
    /\ customer_menu_func' = FALSE
    /\ pc' = "welcome"

\* main_menu returns (its loop broke, or it caught an exception): the menu that
\* called it returns in turn, to the welcome loop of the main_menu below; the
\* outermost main_menu ends the program.
ReturnFromMainMenu(prods, items, func) ==
    IF stack = <<>>
    THEN /\ pc' = "exited"
         /\ products' = prods
         /\ cart_items' = items
         /\ customer_menu_func' = func
         /\ stack' = stack
    ELSE /\ pc' = "welcome"
         /\ products' = stack[Len(stack)].products
         /\ cart_items' = stack[Len(stack)].cart_items
         /\ customer_menu_func' = stack[Len(stack)].customer_menu_func
         /\ stack' = SubSeq(stack, 1, Len(stack) - 1)

\* The bridge calls customer_menu_func(), that is customer_menu with none of
\* its three arguments: a TypeError.
notify_raises(func) == func

MenuCustomer ==
    /\ pc = "welcome"
    /\ \E login \in BOOLEAN :
        IF login
        THEN /\ customer_menu_func' = TRUE
             /\ pc' = "customer"
             /\ last' = Op("login_customer", "", 0, FALSE, "", 0)
             /\ UNCHANGED <<products, cart_items, stack>>
        ELSE /\ CallMainMenu(products, cart_items, customer_menu_func)
             /\ last' = Op("login_customer", "", 0, FALSE, "failed", 0)

MenuAdmin ==
    /\ pc = "welcome"
    /\ \E login \in BOOLEAN :
        IF login
        THEN /\ pc' = "admin"
             /\ last' = Op("login_admin", "", 0, FALSE, "", 0)
             /\ UNCHANGED <<products, cart_items, customer_menu_func, stack>>
        ELSE /\ CallMainMenu(products, cart_items, customer_menu_func)
             /\ last' = Op("login_admin", "", 0, FALSE, "failed", 0)

MenuInvalidChoice ==
    /\ pc = "welcome"
    /\ ReturnFromMainMenu(products, cart_items, customer_menu_func)
    /\ last' = Op("invalid_choice", "", 0, FALSE, "", 0)

MenuViewProducts ==
    /\ pc \in {"customer", "admin"}
    /\ last' = Op("view_products", "", 0, FALSE, "", 0)
    /\ UNCHANGED <<products, cart_items, customer_menu_func, pc, stack>>

MenuAddToCart ==
    /\ pc = "customer"
    /\ \E name \in MenuNames \cup NewProducts, quantity \in FewQtyInputs :
        IF name \in DOMAIN products
        THEN /\ Len(cart_items) < MaxCart
             /\ LET ds == menu_strategy(products, name)
                IN cart_items' = add_item(cart_items,
                                          clone(products, name, quantity, ds),
                                          quantity, ds)
             /\ last' = Op("add_item", name, quantity, FALSE, "", 0)
             /\ UNCHANGED <<products, customer_menu_func, pc, stack>>
        ELSE /\ last' = Op("add_item", name, 0, FALSE, "not found", 0)
             /\ UNCHANGED <<products, cart_items, customer_menu_func, pc, stack>>

MenuUpdateQuantity ==
    /\ pc = "customer"
    /\ \E name \in MenuNames, new_quantity \in MenuQtyInputs :
        /\ cart_items' = update_quantity(cart_items, name, new_quantity)
        /\ last' = Op("update_quantity", name, new_quantity, FALSE,
                      IF Matches(cart_items, name) = {} THEN "not found" ELSE "", 0)
        /\ UNCHANGED <<products, customer_menu_func, pc, stack>>

\* "Enter quantity to remove (Enter 0 to remove all)": the number typed is
\* passed on as remove_quantity.
MenuRemoveFromCart ==
    /\ pc = "customer"
    /\ \E name \in MenuNames, remove_quantity \in MenuQtyInputs :
        /\ cart_items' = remove_item(cart_items, name, remove_quantity)
        /\ last' = Op("remove_item", name, remove_quantity, FALSE, "", 0)
        /\ UNCHANGED <<products, customer_menu_func, pc, stack>>

\* display_cart is not guarded in customer_menu: what it raises ends main_menu.
MenuDisplayCart ==
    /\ pc = "customer"
    /\ IF display_cart_raises(cart_items)
       THEN /\ ReturnFromMainMenu(products, cart_items, customer_menu_func)
            /\ last' = Op("display_cart", "", 0, FALSE, "raised", 0)
       ELSE /\ last' = Op("display_cart", "", 0, FALSE, "", 0)
            /\ UNCHANGED <<products, cart_items, customer_menu_func, pc, stack>>

\* cart.checkout(prototype), break, and main_menu() at the end of customer_menu.
MenuCheckout ==
    /\ pc = "customer"
    /\ LET r == checkout(cart_items, products)
       IN /\ CallMainMenu(r.products, r.cart_items, customer_menu_func)
          /\ last' = Op("checkout", "", 0, FALSE, r.outcome, r.at)

MenuExitCustomer ==
    /\ pc = "customer"
    /\ CallMainMenu(products, cart_items, customer_menu_func)
    /\ last' = Op("exit_customer", "", 0, FALSE, "", 0)

\* "Add New Product": register, set the count, notify the bridge.
MenuAddProduct ==
    /\ pc = "admin"
    /\ \E name \in NewProducts, price \in AdminPrices, count \in FewQtyInputs :
        LET prods == SetCount(register_product(products, name, price, TRUE, 0),
                              name, count)
        IN IF notify_raises(customer_menu_func)
           THEN /\ ReturnFromMainMenu(prods, cart_items, customer_menu_func)
                /\ last' = Op("add_product", name, count, FALSE, "raised", 0)
           ELSE /\ products' = prods
                /\ last' = Op("add_product", name, count, FALSE, "", 0)
                /\ UNCHANGED <<cart_items, customer_menu_func, pc, stack>>

\* "Update Product Availability": set the fields, notify the bridge.
MenuUpdateProduct ==
    /\ pc = "admin"
    /\ \E name \in {"Headphones1"} \cup NewProducts, count \in FewQtyInputs,
          discount \in AdminDiscounts :
        IF name \in DOMAIN products
        THEN LET prods == update_product(products, name, TRUE, count, discount)
             IN IF notify_raises(customer_menu_func)
                THEN /\ ReturnFromMainMenu(prods, cart_items, customer_menu_func)
                     /\ last' = Op("update_product", name, count, FALSE, "raised", 0)
                ELSE /\ products' = prods
                     /\ last' = Op("update_product", name, count, FALSE, "", 0)
                     /\ UNCHANGED <<cart_items, customer_menu_func, pc, stack>>
        ELSE /\ last' = Op("update_product", name, count, FALSE, "not found", 0)
             /\ UNCHANGED <<products, cart_items, customer_menu_func, pc, stack>>

MenuExitAdmin ==
    /\ pc = "admin"
    /\ CallMainMenu(products, cart_items, customer_menu_func)
    /\ last' = Op("exit_admin", "", 0, FALSE, "", 0)

MenuNext ==
    \/ MenuCustomer
    \/ MenuAdmin
    \/ MenuInvalidChoice
    \/ MenuViewProducts
    \/ MenuAddToCart
    \/ MenuUpdateQuantity
    \/ MenuRemoveFromCart
    \/ MenuDisplayCart
    \/ MenuCheckout
    \/ MenuExitCustomer
    \/ MenuAddProduct
    \/ MenuUpdateProduct
    \/ MenuExitAdmin

MenuSpec == Init /\ [][MenuNext]_vars

----------------------------------------------------------------------------
(* What a checkout pass is expected to do, stated from the cart and the    *)
(* catalog before it                                                       *)

Laptop5 == CartItem("Laptop1", 800, 5, PercentageOffDiscountStrategy(10))

Laptop20 == CartItem("Laptop1", 800, 20, PercentageOffDiscountStrategy(10))

Headphones5 == CartItem("Headphones1", 50, 5, PercentageOffDiscountStrategy(10))

Headphones20 == CartItem("Headphones1", 50, 20, PercentageOffDiscountStrategy(10))

AllCarryPolicy(items) == \A i \in 1..Len(items) : items[i].discount_strategy.kind # "None"

\* The units of product n asked for by the line items 1..j.
RECURSIVE Taken(_, _, _)
Taken(items, n, j) ==
    IF j = 0 THEN 0
    ELSE Taken(items, n, j - 1) + (IF items[j].name = n THEN items[j].quantity ELSE 0)

\* The count of product n once the line items 1..j have been deducted.
Running(items, prods, n, j) == prods[n].count - Taken(items, n, j)

\* The line items that ask for more than is left when every line item before
\* them has been deducted; the least of them is where the pass stops.
Short(items, prods) ==
    {f \in 1..Len(items) :
        /\ items[f].name \in DOMAIN prods
        /\ items[f].quantity > Running(items, prods, items[f].name, f - 1)}

FirstShort(items, prods) ==
    CHOOSE f \in Short(items, prods) : \A g \in Short(items, prods) : f <= g

Processed(items, prods) ==
    IF Short(items, prods) = {} THEN Len(items) ELSE FirstShort(items, prods) - 1

HitsZero(items, prods, n, k) ==
    \E j \in 1..k : items[j].name = n /\ Running(items, prods, n, j) = 0

\* C1: a checkout of a cart whose line items all carry a discount policy takes
\* the line items in cart order; each one it processes (name in the catalog,
\* count >= quantity at that moment) lowers the count by exactly its quantity,
\* and available becomes false exactly when a new count is 0, and is otherwise
\* left as it was.
C1_CheckoutDeducts ==
    [][(last'.op = "checkout" /\ AllCarryPolicy(cart_items)) =>
        LET k == Processed(cart_items, products)
        IN /\ DOMAIN products' = DOMAIN products
           /\ \A n \in DOMAIN products :
                /\ products'[n].count = Running(cart_items, products, n, k)
                /\ products'[n].available =
                      (IF HitsZero(cart_items, products, n, k)
                       THEN FALSE ELSE products[n].available)
                /\ products'[n].price = products[n].price
                /\ products'[n].discount = products[n].discount]_vars

\* A cart of exactly `count` units of Laptop1 has been checked out: count is 0
\* and available is false.
C1_Witness ==
    /\ last.op = "checkout" /\ last.outcome = "success"
    /\ cart_items = <<Laptop20>>
    /\ products["Laptop1"].count = 0
    /\ ~products["Laptop1"].available

\* C2: when checkout reaches the first line item that asks for more than the
\* current count, it stops there: it reports that line item, nothing is deducted
\* for it or for any line item after it, and what the line items before it
\* deducted (counts and availability) is kept.
C2_StopsAtFirstShort ==
    [][(last'.op = "checkout" /\ AllCarryPolicy(cart_items)
            /\ Short(cart_items, products) # {}) =>
        LET f == FirstShort(cart_items, products)
        IN /\ last'.outcome = "insufficient"
           /\ last'.at = f
           /\ \A n \in DOMAIN products :
                /\ products'[n].count = Running(cart_items, products, n, f - 1)
                /\ products'[n].available =
                      (IF HitsZero(cart_items, products, n, f - 1)
                       THEN FALSE ELSE products[n].available)
                /\ (\A j \in 1..(f - 1) : cart_items[j].name # n)
                      => products'[n] = products[n]]_vars

\* 5 units of Laptop1 were deducted from 20, then the second line item asked
\* for 20 of the 15 left: the pass stopped at it and the 5 stay deducted.
C2_Witness ==
    /\ last.op = "checkout" /\ last.outcome = "insufficient" /\ last.at = 2
    /\ cart_items = <<Laptop5, Laptop20>>
    /\ products["Laptop1"].count = 15
    /\ products["Laptop1"].available

\* C10: checkout never drives stock negative: every catalog count stays >= 0
\* through any number of checkouts of any cart.
C10_StockNonNegative == \A n \in DOMAIN products : products[n].count >= 0

\* Two line items of Laptop1 asking for 25 units of 20 and a line item of
\* negative quantity have been through checkout.
C10_Witness ==
    /\ last.op = "checkout"
    /\ \E i, j \in 1..Len(cart_items) :
          /\ i < j
          /\ cart_items[i].name = "Laptop1" /\ cart_items[j].name = "Laptop1"
          /\ cart_items[i].quantity + cart_items[j].quantity > 20
          /\ cart_items[i].quantity > 0 /\ cart_items[j].quantity > 0
    /\ products["Laptop1"].count = 0

\* A line item of negative quantity has been checked out.
C10_WitnessNegative ==
    /\ last.op = "checkout" /\ last.outcome = "success"
    /\ \E i \in 1..Len(cart_items) : cart_items[i].quantity < 0

----------------------------------------------------------------------------
(* Editing the cart *)

Decremented(items, product_name, remove_quantity) ==
    [i \in 1..Len(items) |->
        IF items[i].name = product_name
        THEN [items[i] EXCEPT !.quantity = @ - remove_quantity] ELSE items[i]]

\* C3: remove_item(name, q) lowers every line item of that name by q and deletes
\* those that reach 0 or less, whatever their number and place; the other line
\* items are untouched.
C3_RemoveEveryMatch ==
    [][(last'.op = "remove_item" /\ ~last'.all) =>
        cart_items' =
            SelectSeq(Decremented(cart_items, last'.name, last'.q),
                      LAMBDA item : item.name # last'.name \/ item.quantity > 0)]_vars

\* C4: every line item in the cart has quantity > 0.
C4_QuantityPositive == \A i \in 1..Len(cart_items) : cart_items[i].quantity > 0

----------------------------------------------------------------------------
(* The cart and the catalog *)

\* C6: a line item is a snapshot taken when it is added (the name and the price
\* the catalog entry has then, the quantity and the strategy given), and a later
\* change of the catalog - a product registered or registered again, its fields
\* updated, a checkout - leaves every line item of the cart, and so the total
\* of the cart, as it was.
C6_LineItemsAreSnapshots ==
    [][/\ last'.op = "add_item" =>
            /\ Len(cart_items') = Len(cart_items) + 1
            /\ SubSeq(cart_items', 1, Len(cart_items)) = cart_items
            /\ cart_items'[Len(cart_items')] =
                  CartItem(last'.name, products[last'.name].price, last'.q,
                           menu_strategy(products, last'.name))
       /\ last'.op \in {"register_product", "update_product", "checkout"} =>
            /\ cart_items' = cart_items
            /\ AllCarryPolicy(cart_items) =>
                  calculate_total_bill(cart_items') = calculate_total_bill(cart_items)
      ]_vars

\* Laptop1 was registered again at another price while the cart holds a
\* Laptop1 line item taken at the old price.
C6_Witness ==
    /\ last.op = "register_product" /\ last.name = "Laptop1"
    /\ products["Laptop1"].price = 900
    /\ \E i \in 1..Len(cart_items) :
          cart_items[i].name = "Laptop1" /\ cart_items[i].price = 800

----------------------------------------------------------------------------
(* The program *)

\* C5: the catalog is one mapping for the life of the process: when a menu ends
\* and the welcome page is shown again, the catalog is the one the menu left
\* (with the checkout's deductions and the admin's changes).
C5_CatalogLivesOn ==
    [][/\ last'.op = "checkout" =>
            products' = checkout(cart_items, products).products
       /\ last'.op \in {"exit_customer", "exit_admin"} => products' = products
      ]_vars

\* C7: when the admin adds or updates a product, the notification completes
\* and the admin menu goes on, with the change made.
C7_NotifyCompletes ==
    [][(last'.op \in {"add_product", "update_product"} /\ last'.outcome # "not found") =>
        /\ last'.outcome # "raised"
        /\ pc' = "admin"
        /\ stack' = stack
        /\ last'.name \in DOMAIN products']_vars

\* C8: "Enter 0 to remove all": after 0 is typed at Remove from Cart the cart
\* holds no line item of that name.
C8_ZeroRemovesAll ==
    [][(last'.op = "remove_item" /\ last'.q = 0) =>
        Matches(cart_items', last'.name) = {}]_vars

\* C9: every line item in the cart carries a discount policy, so Display Cart
\* never fails and checkout never ends in its error branch.
C9_EveryItemHasPolicy ==
    /\ AllCarryPolicy(cart_items)
    /\ last.op = "display_cart" => last.outcome # "raised"
    /\ last.op = "checkout" => last.outcome # "error"

====
